---- MODULE Spec2Model ----
(***************************************************************************)
(* Scoring-function harness of src/scoring_functions.py: the Worker line   *)
(* protocol (Worker.__call__), the thread-per-descriptor dispatcher        *)
(* (Multiprocessing.__call__), the in-process dispatcher                   *)
(* (Singleprocessing.__call__) and the factory (get_scoring_function).     *)
(*                                                                         *)
(* Text is modelled character by character: a Python str is a sequence of  *)
(* one-character strings, so that the regular-expression search of         *)
(* pexpect's expect(), str.lstrip and float() are computed as the code     *)
(* computes them.  "\n" stands for one line terminator.                    *)
(***************************************************************************)
EXTENDS Integers, Sequences, FiniteSets, TLC

(***************************************************************************)
(* Bounds of the model.                                                    *)
(***************************************************************************)
MaxBatch == 2
MaxWorkers == 2
MaxFactoryCalls == 2

(***************************************************************************)
(* Text helpers.                                                           *)
(***************************************************************************)
Digit == {"0", "1", "2", "3", "4", "5", "6", "7", "8", "9"}

CharsOf(s) == {s[i] : i \in 1..Len(s)}

\* s[i..] starts with the literal lit (i is a 1-based position)
LitAt(s, i, lit) ==
    /\ i + Len(lit) - 1 <= Len(s)
    /\ \A j \in 1..Len(lit) : s[i + j - 1] = lit[j]

\* first position p >= i with s[p] not in cs (Len(s)+1 when there is none):
\* the end of a greedy run cs* starting at i
RunEnd(s, i, cs) ==
    IF \E p \in i..Len(s) : s[p] \notin cs
    THEN CHOOSE p \in i..Len(s) : s[p] \notin cs /\ \A q \in i..(p - 1) : s[q] \in cs
    ELSE Len(s) + 1

\* str.lstrip(chars): drop the leading characters that belong to the SET of
\* characters of the argument (not a prefix)
Lstrip(s, chars) == SubSeq(s, RunEnd(s, 1, CharsOf(chars)), Len(s))

(***************************************************************************)
(* Python values held in the result list: the int 0 that pre-fills it      *)
(* (line 165) and floats.  A float is its integer part and the digits of   *)
(* its fraction with trailing zeros dropped, so "0.50" and "0.5" are the   *)
(* same value and "75" is seventy-five.                                    *)
(***************************************************************************)
PyInt0 == [ty |-> "int", ip |-> 0, fp |-> <<>>]
PyFloat(i, f) == [ty |-> "float", ip |-> i, fp |-> f]
Zero == PyFloat(0, <<>>)
One == PyFloat(1, <<>>)

DigitSeq == <<"0", "1", "2", "3", "4", "5", "6", "7", "8", "9">>
DigitVal(c) == (CHOOSE k \in 1..Len(DigitSeq) : DigitSeq[k] = c) - 1

RECURSIVE NatOf(_)
NatOf(ds) ==
    IF ds = <<>> THEN 0
    ELSE NatOf(SubSeq(ds, 1, Len(ds) - 1)) * Len(DigitSeq) + DigitVal(ds[Len(ds)])

RECURSIVE StripZeros(_)
StripZeros(fs) ==
    IF fs # <<>> /\ fs[Len(fs)] = "0" THEN StripZeros(SubSeq(fs, 1, Len(fs) - 1)) ELSE fs

\* position of the first "." of s, Len(s)+1 when there is none
DotPos(s) == RunEnd(s, 1, CharsOf(s) \ {"."})

\* float(s) accepts digits with at most one "." and at least one digit (the
\* only shapes a suffix of a matched score can take); anything else raises
FloatOk(s) ==
    /\ \E i \in 1..Len(s) : s[i] \in Digit
    /\ \A i \in 1..Len(s) : s[i] \in Digit \cup {"."}
    /\ Cardinality({i \in 1..Len(s) : s[i] = "."}) <= 1

FloatOf(s) ==
    PyFloat(NatOf(SubSeq(s, 1, DotPos(s) - 1)),
            StripZeros(SubSeq(s, DotPos(s) + 1, Len(s))))

(***************************************************************************)
(* Worker.__call__, line 143: the three patterns handed to expect().       *)
(* Pattern 0 is  re.escape(smile) + " 1\.0+|[0]\.[0-9]+" : the alternation *)
(* binds loosest, so it reads  (<smile> 1.0+) | (0.[0-9]+) .  Pattern 1 is *)
(* the literal None, pattern 2 is pexpect.TIMEOUT.                         *)
(***************************************************************************)
AltAPrefix(smile) == smile \o <<" ", "1", ".">>

\* end (exclusive) of the match of pattern 0 at position i, 0 when none; the
\* left alternative is tried first, both quantifiers are greedy
Pat0End(s, i, smile) ==
    IF LitAt(s, i, AltAPrefix(smile) \o <<"0">>)
    THEN RunEnd(s, i + Len(AltAPrefix(smile)), {"0"})
    ELSE IF LitAt(s, i, <<"0", ".">>) /\ i + 2 <= Len(s) /\ s[i + 2] \in Digit
         THEN RunEnd(s, i + 2, Digit)
         ELSE 0

NoneLit == <<"N", "o", "n", "e">>

\* leftmost position where the pattern matches, 0 when it does not
Pat0Start(s, smile) ==
    IF \E i \in 1..Len(s) : Pat0End(s, i, smile) # 0
    THEN CHOOSE i \in 1..Len(s) :
            Pat0End(s, i, smile) # 0 /\ \A j \in 1..(i - 1) : Pat0End(s, j, smile) = 0
    ELSE 0

Pat1Start(s) ==
    IF \E i \in 1..Len(s) : LitAt(s, i, NoneLit)
    THEN CHOOSE i \in 1..Len(s) :
            LitAt(s, i, NoneLit) /\ \A j \in 1..(i - 1) : ~LitAt(s, j, NoneLit)
    ELSE 0

\* pexpect's search over the pattern list: the pattern whose match starts
\* first in the buffer wins, the earlier pattern on a tie.  index -1: nothing
\* matches (the caller then times out or meets EOF).  after is the matched
\* text (proc.after), rest the buffer left behind.  p0 and p1 are the
\* leftmost matches of pattern 0 and pattern 1.
Expect(buf, smile) ==
    CHOOSE e \in
        {IF p0 # 0 /\ (p1 = 0 \/ p0 <= p1)
         THEN [index |-> 0,
               after |-> SubSeq(buf, p0, Pat0End(buf, p0, smile) - 1),
               rest |-> SubSeq(buf, Pat0End(buf, p0, smile), Len(buf))]
         ELSE IF p1 # 0
         THEN [index |-> 1,
               after |-> NoneLit,
               rest |-> SubSeq(buf, p1 + Len(NoneLit), Len(buf))]
         ELSE [index |-> -1, after |-> <<>>, rest |-> buf] :
         p0 \in {Pat0Start(buf, smile)}, p1 \in {Pat1Start(buf)}} : TRUE

\* line 145: the text handed to float()
ScoreText(after, smile) == Lstrip(after, smile \o <<" ">>)

\* line 145: float() raises ValueError, so line 148 is never reached
ScoreRaises(index, after, smile) ==
    index = 0 /\ ~FloatOk(ScoreText(after, smile))

\* lines 144-147: the score for match index 0, 1 (None) or 2 (TIMEOUT)
WorkerScore(index, after, smile) ==
    IF index = 0
    THEN CHOOSE score \in {FloatOf(text) : text \in {ScoreText(after, smile)}} : TRUE
    ELSE Zero

(***************************************************************************)
(* Descriptors and the scoring oracle.  The oracle is external: here it is *)
(* a fixed table from descriptor to the text the subprocess prints for it  *)
(* (the score as str(float), or the None sentinel for an unscorable one).  *)
(***************************************************************************)
Ethane == <<"C", "C">>
Cyclopropane == <<"C", "1", "C", "C", "1">>
Junk == <<"X">>
Descriptors == {Ethane, Cyclopropane, Junk}

OracleText(smile) ==
    IF smile = Ethane THEN <<"0", ".", "5">>
    ELSE IF smile = Cyclopropane THEN <<"1", ".", "0">>
    ELSE NoneLit

\* the oracle called in-process (activity_model.__call__): the float itself,
\* 0.0 for a descriptor that does not parse
OracleValue(smile) ==
    IF OracleText(smile) = NoneLit THEN Zero ELSE FloatOf(OracleText(smile))

\* the line the subprocess prints for a request, per the line protocol
ReplyLine(smile) ==
    IF OracleText(smile) = NoneLit
    THEN NoneLit \o <<"\n">>
    ELSE smile \o <<" ">> \o OracleText(smile) \o <<"\n">>

RECURSIVE SeqsUpTo(_, _)
SeqsUpTo(S, k) ==
    IF k = 0 THEN {<<>>}
    ELSE SeqsUpTo(S, k - 1) \cup
         {Append(s, x) : s \in {q \in SeqsUpTo(S, k - 1) : Len(q) = k - 1}, x \in S}

Batches == SeqsUpTo(Descriptors, MaxBatch)

\* np.array(scores, dtype=np.float32): every entry, the pre-filled int 0
\* included, becomes a float32
Float32(v) == [ty |-> "float32", ip |-> v.ip, fp |-> v.fp]
NpArray(xs) == [i \in 1..Len(xs) |-> Float32(xs[i])]

RECURSIVE SortedSeq(_)
SortedSeq(S) ==
    IF S = {} THEN <<>>
    ELSE LET m == CHOOSE x \in S : \A y \in S : x <= y
         IN  <<m>> \o SortedSeq(S \ {m})

(***************************************************************************)
(* State.                                                                  *)
(***************************************************************************)
VARIABLES
    n,             \* Multiprocessing.n: the pool size
    alive,         \* worker slot -> proc.isalive()
    buf,           \* worker slot -> the text pexpect has read and not consumed
    pending,       \* worker slot -> requests the subprocess has not answered
    threads,       \* the live worker threads (threading.enumerate)
    mainPc,        \* where the calling thread stands
    smiles,        \* the batch handed to the dispatcher
    smiles_copy,   \* the work queue
    scores,        \* the result list of the current call
    free_threads,  \* the rest of the for-loop of line 184
    result,        \* what the call returned
    writer,        \* slot -> descriptor of the unit that wrote it (ghost)
    allDeadWithWork, \* every worker was dead while the queue held work (ghost)
    fault,         \* a worker died or an exchange timed out (ghost)
    single,        \* outcome of Singleprocessing.__call__
    reply,         \* the last line a subprocess printed on request (ghost)
    attrs,         \* <<class, key>> -> the class attribute's value
    prevAttrs,     \* attrs before the last get_scoring_function call (ghost)
    facOut,        \* the last get_scoring_function call and its outcome
    spawned,       \* subprocesses spawned by Worker.__init__ so far
    facCalls,      \* get_scoring_function calls so far
    built,         \* the classes a dispatcher has been constructed for (ghost)
    bound          \* slot -> number of units the slot was bound to (ghost)

vars == <<n, alive, buf, pending, threads, mainPc, smiles, smiles_copy,
          scores, free_threads, result, writer, allDeadWithWork, fault, single,
          reply, attrs, prevAttrs, facOut, spawned, facCalls, built, bound>>

facVars == <<attrs, prevAttrs, facOut, spawned, facCalls, built>>

WorkerIds == 0..(n - 1)
Unwritten == <<"-">>
NoResult == [out |-> "none", val |-> <<>>]

InitScoresShort(b) == [i \in 1..(Len(b) - 1) |-> PyInt0]

\* line 165
InitScores(b) == [i \in 1..Len(b) |-> PyInt0]

alive_workers_unchecked == WorkerIds

\* lines 161-162
alive_workers == {w \in WorkerIds : alive[w]}

\* lines 172-182: the integer names among the live threads
used_threads == {t.name : t \in threads}

FreeThreadsIgnoringBusy(alive_procs) == SortedSeq(alive_procs)

FreeThreadsOfPool(alive_procs) == SortedSeq(WorkerIds \ used_threads)

\* line 183
FreeThreads(alive_procs) == SortedSeq(alive_procs \ used_threads)

PopSmileFront(q) == q[1]

\* lines 187-188: list.pop() takes the last element; the index is the length
\* of what remains (0-based)
PopSmile(q) == q[Len(q)]
PopRest(q) == SubSeq(q, 1, Len(q) - 1)

PopIdxFirst(q) == 0

\* line 188
PopIdx(q) == Len(PopRest(q))

\* ghost: all workers dead with work queued, observed in the current state
DeadWithWork(al, q) == q # <<>> /\ \A w \in DOMAIN al : ~al[w]

(***************************************************************************)
(* get_scoring_function, lines 209-224, and the constructors it calls.     *)
(***************************************************************************)
\* line 211
scoring_function_classes == <<"tanimoto", "activity_model">>
\* line 212
scoring_functions == {scoring_function_classes[i] : i \in DOMAIN scoring_function_classes}

\* the names a caller may pass: the registered ones and a class of the
\* module that is not registered
CallNames == scoring_functions \cup {"logP"}

\* lines 36, 102: the kwargs list of each class
ClassKwargs(cls) ==
    IF cls = "tanimoto" THEN {"k", "query_structure"} ELSE {"clf_path"}

\* lines 41, 105: positional parameters of __init__ that have no default
RequiredInitArgs(cls) == IF cls = "tanimoto" THEN 1 ELSE 0

Keys == {"k", "query_structure", "clf_path", "threshold"}
OverrideValue == "override"
Absent == "absent"

\* lines 37, 39, 103: k and clf_path have class-level defaults; the class
\* attribute query_structure is commented out
InitAttrs ==
    [a \in scoring_functions \X Keys |->
        IF a = <<"tanimoto", "k">> THEN "0.7"
        ELSE IF a = <<"activity_model", "clf_path">> THEN "data/clf.pkl"
        ELSE Absent]

\* the keyword arguments of a call: some keys, each with a value
CallKeys == {"k", "clf_path", "threshold"}
KwargsSets == {[k \in K |-> OverrideValue] : K \in SUBSET CallKeys}

\* num_processes: <<>> is the default None, <<k>> the integer k
NumProcessesValues == {<<>>, <<-1>>, <<0>>, <<2>>}

\* what the file system holds: everything, no classifier pickle at clf_path,
\* or no executable ./multiprocess.py
Envs == {"ok", "no_clf", "no_script"}

\* line 213: the classes whose __name__ is the requested one
Matching(name) ==
    SelectSeq(scoring_function_classes, LAMBDA c : c = name)

OverrideAll(a, cls, kw) ==
    [x \in DOMAIN a |->
        IF x[1] = cls /\ x[2] \in DOMAIN kw THEN kw[x[2]] ELSE a[x]]

\* lines 218-220: setattr for the keys the class lists in kwargs
ApplyOverrides(a, cls, kw) ==
    [x \in DOMAIN a |->
        IF x[1] = cls /\ x[2] \in DOMAIN kw /\ x[2] \in ClassKwargs(cls)
        THEN kw[x[2]]
        ELSE a[x]]

\* lines 203-204: Singleprocessing.__init__ calls the class without arguments
SingleInit(cls, env) ==
    IF RequiredInitArgs(cls) > 0 THEN [kind |-> "TypeError", pool |-> 0]
    ELSE IF cls = "activity_model" /\ env = "no_clf"
    THEN [kind |-> "OSError", pool |-> 0]
    ELSE [kind |-> "Singleprocessing", pool |-> 0]

\* lines 157-159, 136: Multiprocessing.__init__ spawns range(num_processes)
\* workers; range(None) raises, a negative range is empty
MultiInit(np, env) ==
    IF np = <<>> THEN [kind |-> "TypeError", pool |-> 0]
    ELSE IF np[1] <= 0 THEN [kind |-> "Multiprocessing", pool |-> 0]
    ELSE IF env = "no_script" THEN [kind |-> "ExceptionPexpect", pool |-> 0]
    ELSE [kind |-> "Multiprocessing", pool |-> np[1]]

\* lines 211-224: how the call ends.  Line 213 indexes the list of matching
\* classes before line 215 looks at the name.
FactoryOutcome(name, np, kw, env) ==
    IF Matching(name) = <<>> THEN [kind |-> "IndexError", pool |-> 0]
    ELSE IF name \notin scoring_functions THEN [kind |-> "ValueError", pool |-> 0]
    ELSE IF np = <<0>> THEN SingleInit(Matching(name)[1], env)
    ELSE MultiInit(np, env)

\* the class attributes after the call: the overrides are applied once the
\* name has passed lines 213-216, whatever happens later
FactoryAttrs(a, name, kw) ==
    IF Matching(name) = <<>> \/ name \notin scoring_functions THEN a
    ELSE ApplyOverrides(a, Matching(name)[1], kw)

NoCall == [name |-> "", np |-> <<>>, kw |-> <<>>, env |-> "", kind |-> "none", pool |-> 0]

FactoryInit ==
    /\ attrs = InitAttrs
    /\ prevAttrs = InitAttrs
    /\ facOut = NoCall
    /\ spawned = 0
    /\ facCalls = 0
    /\ built = {}

Init ==
    /\ n \in 0..MaxWorkers
    /\ alive = [w \in 0..(n - 1) |-> TRUE]
    /\ buf = [w \in 0..(n - 1) |-> <<>>]
    /\ pending = [w \in 0..(n - 1) |-> <<>>]
    /\ threads = {}
    /\ mainPc = "idle"
    /\ smiles = <<>>
    /\ smiles_copy = <<>>
    /\ scores = <<>>
    /\ free_threads = <<>>
    /\ result = NoResult
    /\ writer = <<>>
    /\ allDeadWithWork = FALSE
    /\ fault = FALSE
    /\ single = NoResult
    /\ reply = <<>>
    /\ bound = <<>>
    /\ FactoryInit

(***************************************************************************)
(* Multiprocessing.__call__, lines 164-198.                                *)
(***************************************************************************)
\* lines 165-167: entry, up to the first test of the while loop
MultiCall(b) ==
    /\ mainPc = "idle"
    /\ smiles' = b
    /\ smiles_copy' = b
    /\ scores' = InitScores(b)
    /\ writer' = [i \in 1..Len(b) |-> Unwritten]
    /\ result' = NoResult
    /\ free_threads' = <<>>
    /\ fault' = FALSE
    /\ allDeadWithWork' = DeadWithWork(alive, b)
    /\ mainPc' = IF b = <<>> THEN "join" ELSE "poll"
    /\ bound' = [i \in 1..Len(b) |-> 0]
    /\ UNCHANGED <<facVars, reply, n, alive, buf, pending, threads, single>>

\* lines 191, 167: after the for-loop the thread sleeps and tests the while
\* condition again
AfterPass(q) == IF q = <<>> THEN "join" ELSE "poll"

\* lines 168-183: poll liveness, raise when nobody is alive, else compute
\* the free workers; with no free worker the pass ends at once
Poll ==
    /\ mainPc = "poll"
    /\ IF alive_workers = {}
       THEN /\ mainPc' = "raised"
            /\ free_threads' = <<>>
       ELSE /\ free_threads' = FreeThreads(alive_workers)
            /\ mainPc' = IF free_threads' = <<>> THEN AfterPass(smiles_copy)
                                                 ELSE "dispatch"
    /\ UNCHANGED <<facVars, bound, reply, n, alive, buf, pending, threads, smiles, smiles_copy,
                   scores, result, writer, allDeadWithWork, fault, single>>

\* lines 184-190: one iteration of the for-loop; the iterations left once
\* the queue is empty do nothing
Dispatch ==
    /\ mainPc = "dispatch"
    /\ threads' = threads \cup
           {[name |-> Head(free_threads), smile |-> PopSmile(smiles_copy),
             idx |-> PopIdx(smiles_copy), pc |-> "sendline"]}
    /\ smiles_copy' = PopRest(smiles_copy)
    /\ IF smiles_copy' = <<>> \/ Tail(free_threads) = <<>>
       THEN /\ free_threads' = <<>>
            /\ mainPc' = AfterPass(smiles_copy')
       ELSE /\ free_threads' = Tail(free_threads)
            /\ mainPc' = "dispatch"
    /\ allDeadWithWork' = (allDeadWithWork \/ DeadWithWork(alive, smiles_copy'))
    /\ bound' = [bound EXCEPT ![PopIdx(smiles_copy) + 1] = @ + 1]
    /\ UNCHANGED <<facVars, reply, n, alive, buf, pending, smiles, scores, result,
                   writer, fault, single>>

JoinReturnNoWait ==
    /\ mainPc = "join"
    /\ mainPc' = "returned"
    /\ result' = [out |-> "vector", val |-> NpArray(scores)]
    /\ UNCHANGED <<facVars, bound, reply, n, alive, buf, pending, threads, smiles, smiles_copy,
                   scores, free_threads, writer, allDeadWithWork, fault, single>>

\* lines 192-198: join every live worker thread, then return the array
JoinReturn ==
    /\ mainPc = "join"
    /\ threads = {}
    /\ mainPc' = "returned"
    /\ result' = [out |-> "vector", val |-> NpArray(scores)]
    /\ UNCHANGED <<facVars, bound, reply, n, alive, buf, pending, threads, smiles, smiles_copy,
                   scores, free_threads, writer, allDeadWithWork, fault, single>>

(***************************************************************************)
(* Worker.__call__, lines 141-148, run by a thread started at line 190.    *)
(***************************************************************************)
Finish(t) == threads' = threads \ {t}

\* line 148: result_list[index] = score
WriteResult(t, v) ==
    /\ scores' = [scores EXCEPT ![t.idx + 1] = v]
    /\ writer' = [writer EXCEPT ![t.idx + 1] = t.smile]

\* line 142 on a running subprocess: the terminal echoes the line and the
\* subprocess receives the request
UnitSendline(t) ==
    /\ t \in threads /\ t.pc = "sendline"
    /\ alive[t.name]
    /\ buf' = [buf EXCEPT ![t.name] = @ \o t.smile \o <<"\n">>]
    /\ pending' = [pending EXCEPT ![t.name] = Append(@, t.smile)]
    /\ threads' = (threads \ {t}) \cup {[t EXCEPT !.pc = "expect"]}
    /\ UNCHANGED <<facVars, bound, reply, n, alive, mainPc, smiles, smiles_copy, scores,
                   free_threads, result, writer, allDeadWithWork, fault, single>>

\* line 142 on a dead subprocess: the write to the pty either fails (OSError
\* ends the thread) or is swallowed, depending on the platform
UnitSendlineDead(t, raises) ==
    /\ t \in threads /\ t.pc = "sendline"
    /\ ~alive[t.name]
    /\ IF raises
       THEN Finish(t)
       ELSE threads' = (threads \ {t}) \cup {[t EXCEPT !.pc = "expect"]}
    /\ UNCHANGED <<facVars, bound, reply, n, alive, buf, pending, mainPc, smiles, smiles_copy, scores,
                   free_threads, result, writer, allDeadWithWork, fault, single>>

\* lines 143-148 when a pattern matches the buffer
UnitMatch(t) ==
    /\ t \in threads /\ t.pc = "expect"
    /\ \E e \in {Expect(buf[t.name], t.smile)} :
           /\ e.index # -1
           /\ buf' = [buf EXCEPT ![t.name] = e.rest]
           /\ IF ScoreRaises(e.index, e.after, t.smile)
              THEN UNCHANGED <<scores, writer>>
              ELSE \E score \in {WorkerScore(e.index, e.after, t.smile)} :
                       WriteResult(t, score)
    /\ Finish(t)
    /\ UNCHANGED <<facVars, bound, reply, n, alive, pending, mainPc, smiles, smiles_copy,
                   free_threads, result, allDeadWithWork, fault, single>>

UnitTimeoutNever(t) ==
    /\ FALSE
    /\ UNCHANGED vars

UnitTimeoutKills(t) ==
    /\ t \in threads /\ t.pc = "expect"
    /\ alive[t.name]
    /\ Expect(buf[t.name], t.smile).index = -1
    /\ scores' = [scores EXCEPT ![t.idx + 1] = Zero]
    /\ writer' = [writer EXCEPT ![t.idx + 1] = t.smile]
    /\ threads' = threads \ {t}
    /\ alive' = [alive EXCEPT ![t.name] = FALSE]
    /\ fault' = TRUE
    /\ UNCHANGED <<facVars, bound, reply, n, buf, pending, mainPc, smiles, smiles_copy,
                   free_threads, result, allDeadWithWork, single>>

\* lines 143, 146-148: nothing matches within the read timeout
UnitTimeout(t) ==
    /\ t \in threads /\ t.pc = "expect"
    /\ alive[t.name]
    /\ Expect(buf[t.name], t.smile).index = -1
    /\ WriteResult(t, WorkerScore(2, <<>>, t.smile))
    /\ Finish(t)
    /\ fault' = TRUE
    /\ UNCHANGED <<facVars, bound, reply, n, alive, buf, pending, mainPc, smiles, smiles_copy,
                   free_threads, result, allDeadWithWork, single>>

\* line 143: the subprocess is gone and nothing matches; pexpect.EOF is not
\* among the patterns, so expect() raises and the thread ends at once
UnitEOF(t) ==
    /\ t \in threads /\ t.pc = "expect"
    /\ ~alive[t.name]
    /\ Expect(buf[t.name], t.smile).index = -1
    /\ Finish(t)
    /\ UNCHANGED <<facVars, bound, reply, n, alive, buf, pending, mainPc, smiles, smiles_copy, scores,
                   free_threads, result, writer, allDeadWithWork, fault, single>>

(***************************************************************************)
(* The subprocess of a worker (./multiprocess.py, line 136).               *)
(***************************************************************************)
\* it answers its oldest unanswered request with one line
Respond(w) ==
    /\ w \in WorkerIds /\ alive[w]
    /\ pending[w] # <<>>
    /\ buf' = [buf EXCEPT ![w] = @ \o ReplyLine(Head(pending[w]))]
    /\ pending' = [pending EXCEPT ![w] = Tail(@)]
    /\ UNCHANGED <<facVars, bound, reply, n, alive, threads, mainPc, smiles, smiles_copy, scores,
                   free_threads, result, writer, allDeadWithWork, fault, single>>

\* it exits or crashes, at any moment
Die(w) ==
    /\ w \in WorkerIds /\ alive[w]
    /\ alive' = [alive EXCEPT ![w] = FALSE]
    /\ fault' = TRUE
    /\ allDeadWithWork' =
           (allDeadWithWork \/
            (mainPc \in {"poll", "dispatch"} /\ DeadWithWork(alive', smiles_copy)))
    /\ UNCHANGED <<facVars, bound, reply, n, buf, pending, threads, mainPc, smiles, smiles_copy, scores,
                   free_threads, result, writer, single>>

(***************************************************************************)
(* Singleprocessing.__call__, lines 205-207.                                *)
(***************************************************************************)
\* what one call of the scoring function returns for a str argument:
\* activity_model.__call__ (lines 109-115) takes one descriptor and returns a
\* float; logP.__call__ and tanimoto.__call__ (lines 60-73, 82-96) take a list
\* and return a list, so a str is scored character by character
CharValue(c) == IF c = "C" THEN One ELSE Zero
SingleRow(kind, smile) ==
    IF kind = "activity_model" THEN <<OracleValue(smile)>>
    ELSE [i \in 1..Len(smile) |-> CharValue(smile[i])]

\* line 207: np.array of N floats is a vector; of N equally long lists a
\* matrix with N rows; of lists of different lengths a ValueError
SingleCallResult(kind, b) ==
    LET rows == [i \in 1..Len(b) |-> SingleRow(kind, b[i])]
    IN  IF kind = "activity_model"
        THEN [out |-> "vector", val |-> NpArray([i \in 1..Len(b) |-> rows[i][1]])]
        ELSE IF \A i, j \in 1..Len(b) : Len(rows[i]) = Len(rows[j])
        THEN [out |-> IF b = <<>> THEN "vector" ELSE "matrix",
              val |-> [i \in 1..Len(b) |-> NpArray(rows[i])]]
        ELSE [out |-> "ValueError", val |-> <<>>]

SingleCall(kind, b) ==
    /\ mainPc = "idle"
    /\ smiles' = b
    /\ single' = SingleCallResult(kind, b)
    /\ mainPc' = "single"
    /\ UNCHANGED <<facVars, bound, reply, n, alive, buf, pending, threads, smiles_copy,
                   scores, free_threads, result, writer, allDeadWithWork, fault>>

Next ==
    \/ \E b \in Batches : MultiCall(b)
    \/ Poll
    \/ Dispatch
    \/ JoinReturn
    \/ \E t \in threads : UnitSendline(t)
    \/ \E t \in threads, raises \in BOOLEAN : UnitSendlineDead(t, raises)
    \/ \E t \in threads : UnitMatch(t)
    \/ \E t \in threads : UnitTimeout(t)
    \/ \E t \in threads : UnitEOF(t)
    \/ \E w \in WorkerIds : Respond(w)
    \/ \E w \in WorkerIds : Die(w)
    \/ \E kind \in {"activity_model", "logP"}, b \in Batches : SingleCall(kind, b)

Spec == Init /\ [][Next]_vars

(***************************************************************************)
(* Scheduling.  The calling thread and every started worker thread keep    *)
(* running (the interpreter schedules every runnable thread again and      *)
(* again); expect() ends by a match, by its read timeout or by EOF.  The   *)
(* subprocess owes nothing: it may never answer and may die or not.        *)
(***************************************************************************)
\* a step of the calling thread inside Multiprocessing.__call__
MainStep == Poll \/ Dispatch \/ JoinReturn

\* a step of the thread named w (Worker.__call__, lines 141-148)
UnitStep(w) ==
    \E t \in threads :
        /\ t.name = w
        /\ \/ UnitSendline(t)
           \/ \E raises \in BOOLEAN : UnitSendlineDead(t, raises)
           \/ UnitMatch(t)
           \/ UnitTimeout(t)
           \/ UnitEOF(t)

Fairness ==
    /\ WF_vars(MainStep)
    /\ \A w \in 0..(MaxWorkers - 1) : WF_vars(UnitStep(w))

\* the batches of the scheduling analysis: a scorable and an unscorable
\* descriptor, in every order
LiveBatches == SeqsUpTo({Ethane, Junk}, MaxBatch)

NextLive ==
    \/ \E b \in LiveBatches : MultiCall(b)
    \/ Poll
    \/ Dispatch
    \/ JoinReturn
    \/ \E t \in threads : UnitSendline(t)
    \/ \E t \in threads, raises \in BOOLEAN : UnitSendlineDead(t, raises)
    \/ \E t \in threads : UnitMatch(t)
    \/ \E t \in threads : UnitTimeout(t)
    \/ \E t \in threads : UnitEOF(t)
    \/ \E w \in WorkerIds : Respond(w)
    \/ \E w \in WorkerIds : Die(w)

SpecLive == Init /\ [][NextLive]_vars /\ Fairness

(***************************************************************************)
(* One exchange of Worker.__call__ on its own, against a subprocess that   *)
(* may print any line of WorkerReplies (or nothing) for the request.       *)
(***************************************************************************)
Salt == <<"C", ".", "C">>
WorkerDescriptors == Descriptors \cup {Salt}

ScoreTexts ==
    {<<"0", ".", "0">>, <<"0", ".", "5">>, <<"0", ".", "7", "5">>, <<"1", ".", "0">>}

\* the well-formed response lines for a descriptor
WellFormedLines(smile) == {smile \o <<" ">> \o s \o <<"\n">> : s \in ScoreTexts}

\* lines that violate the protocol: a score without its descriptor, the
\* score of another descriptor, a score out of range, noise
MalformedLines(smile) ==
    {<<"0", ".", "5", "\n">>,
     <<"N", " ", "0", ".", "5", "\n">>,
     smile \o <<" ", "1", ".", "5", "\n">>,
     <<"?", "\n">>}

SentinelLine == NoneLit \o <<"\n">>

WorkerReplies(smile) ==
    WellFormedLines(smile) \cup MalformedLines(smile) \cup {SentinelLine}

InitWorker ==
    /\ n = 1
    /\ alive = [w \in {0} |-> TRUE]
    /\ buf = [w \in {0} |-> <<>>]
    /\ pending = [w \in {0} |-> <<>>]
    /\ \E d \in WorkerDescriptors, i \in 0..(MaxBatch - 1) :
           threads = {[name |-> 0, smile |-> d, idx |-> i, pc |-> "sendline"]}
    /\ mainPc = "worker"
    /\ smiles = <<>>
    /\ smiles_copy = <<>>
    /\ scores = [i \in 1..MaxBatch |-> PyInt0]
    /\ writer = [i \in 1..MaxBatch |-> Unwritten]
    /\ free_threads = <<>>
    /\ result = NoResult
    /\ allDeadWithWork = FALSE
    /\ fault = FALSE
    /\ single = NoResult
    /\ reply = <<>>
    /\ bound = <<>>
    /\ FactoryInit

RespondWith(w, line) ==
    /\ w \in WorkerIds /\ alive[w]
    /\ pending[w] # <<>>
    /\ line \in WorkerReplies(Head(pending[w]))
    /\ buf' = [buf EXCEPT ![w] = @ \o line]
    /\ pending' = [pending EXCEPT ![w] = Tail(@)]
    /\ reply' = line
    /\ UNCHANGED <<facVars, bound, n, alive, threads, mainPc, smiles, smiles_copy, scores,
                   free_threads, result, writer, allDeadWithWork, fault, single>>

AllLines == UNION {WorkerReplies(d) : d \in WorkerDescriptors}

NextWorker ==
    \/ \E t \in threads : UnitSendline(t)
    \/ \E line \in AllLines : RespondWith(0, line)
    \/ \E t \in threads : UnitMatch(t)
    \/ \E t \in threads : UnitTimeout(t)

SpecWorker == InitWorker /\ [][NextWorker]_vars

(***************************************************************************)
(* The factory on its own: a sequence of get_scoring_function calls.       *)
(***************************************************************************)
poolVars == <<n, alive, buf, pending, threads, mainPc, smiles, smiles_copy, scores,
              free_threads, result, writer, allDeadWithWork, fault, single, reply,
              bound>>

InitFactory ==
    /\ n = 0
    /\ alive = <<>>
    /\ buf = <<>>
    /\ pending = <<>>
    /\ threads = {}
    /\ mainPc = "factory"
    /\ smiles = <<>>
    /\ smiles_copy = <<>>
    /\ scores = <<>>
    /\ free_threads = <<>>
    /\ result = NoResult
    /\ writer = <<>>
    /\ allDeadWithWork = FALSE
    /\ fault = FALSE
    /\ single = NoResult
    /\ reply = <<>>
    /\ bound = <<>>
    /\ FactoryInit

\* lines 67, 106: the class attributes the oracle of a class reads
\* (tanimoto.__call__ reads self.k, activity_model.__init__ self.clf_path)
OracleReads(cls) == IF cls = "tanimoto" THEN {"k"} ELSE {"clf_path"}

\* lines 223-224: the call returned a dispatcher (with its adapter or its
\* workers), so one exists for the class from now on
BuiltBy(name, np, kw, env) ==
    IF FactoryOutcome(name, np, kw, env).kind \in {"Singleprocessing", "Multiprocessing"}
    THEN {name}
    ELSE {}

GetScoringFunction(name, np, kw, env) ==
    /\ facCalls < MaxFactoryCalls
    /\ facCalls' = facCalls + 1
    /\ prevAttrs' = attrs
    /\ attrs' = FactoryAttrs(attrs, name, kw)
    /\ facOut' = [name |-> name, np |-> np, kw |-> kw, env |-> env,
                  kind |-> FactoryOutcome(name, np, kw, env).kind,
                  pool |-> FactoryOutcome(name, np, kw, env).pool]
    /\ spawned' = spawned + FactoryOutcome(name, np, kw, env).pool
    /\ built' = built \cup BuiltBy(name, np, kw, env)
    /\ UNCHANGED poolVars

NextFactory ==
    \E name \in CallNames, np \in NumProcessesValues, kw \in KwargsSets, env \in Envs :
        GetScoringFunction(name, np, kw, env)

SpecFactory == InitFactory /\ [][NextFactory]_vars

(***************************************************************************)
(* Properties.                                                             *)
(***************************************************************************)
Returned == mainPc = "returned"
Slots == 1..Len(smiles)

\* C1: whenever either dispatcher returns normally, the returned array has
\* as many entries as the input batch (the empty batch included)
C1_LengthPreserved ==
    /\ Returned => result.out = "vector" /\ Len(result.val) = Len(smiles)
    /\ single.out \in {"vector", "matrix"} => Len(single.val) = Len(smiles)

\* a batch of full length returned after a worker died or timed out
C1_Witness == Returned /\ Len(smiles) = MaxBatch /\ fault

\* C2: the index bound to a descriptor at pop time is its position in the
\* input, so a slot is only ever written by the unit that was handed the
\* descriptor of that position, whatever the completion order
C2_IndexAlignment ==
    /\ \A t \in threads : t.idx + 1 \in Slots /\ smiles[t.idx + 1] = t.smile
    /\ \A i \in 1..Len(writer) : writer[i] # Unwritten => writer[i] = smiles[i]

\* scrambled completion: the unit of slot 1, started second, has written
\* while the unit of slot 2, started first, is still in flight
C2_Witness ==
    /\ Len(smiles) = 2 /\ smiles[1] # smiles[2]
    /\ Len(writer) = 2
    /\ writer[1] # Unwritten /\ writer[2] = Unwritten
    /\ \E t \in threads : t.idx = 1

C4_SlotsOracleOrZero ==
    Returned =>
        \A i \in Slots :
            result.val[i] \in {Float32(OracleValue(smiles[i])), Float32(Zero)}

\* C5: without deaths and timeouts the parallel dispatcher returns the array
\* the in-process dispatcher returns for the same batch and oracle
C5_SameAsSingle ==
    (Returned /\ ~fault) => result = SingleCallResult("activity_model", smiles)

\* C10: no two live threads carry the same worker-slot name
C10_OneUnitPerWorker ==
    \A t1, t2 \in threads : t1.name = t2.name => t1 = t2

\* the only worker has finished one unit and is running its second
C10_Witness ==
    /\ n = 1 /\ Len(smiles) = 2
    /\ Len(writer) = 2
    /\ writer[2] # Unwritten
    /\ \E t \in threads : t.idx = 0

WorkerDone == mainPc = "worker" /\ threads = {}

\* C6: whatever the descriptor, a reply that is the sentinel, a timeout or
\* any output other than "<descriptor> <score>" makes the call store 0.0
\* at its index (and so end without an error)
C6_DegradedToZero ==
    (WorkerDone /\ \A d \in WorkerDescriptors : reply \notin WellFormedLines(d)) =>
        \E i \in 1..Len(scores) :
            /\ scores[i] = Zero
            /\ \A j \in 1..Len(scores) : j # i => scores[j] = PyInt0

Called == facCalls > 0
Registered == facOut.name \in scoring_functions
Dispatchers == {"Singleprocessing", "Multiprocessing"}

\* C7: a name that is no registered adapter fails with the ValueError of the
\* name validation, before any class attribute is overridden and before any
\* subprocess is spawned
C7_UnknownNameIsValueError ==
    (Called /\ ~Registered) =>
        facOut.kind = "ValueError" /\ attrs = prevAttrs /\ facOut.pool = 0

\* the override keys of the last call that its adapter lists in kwargs
ListedKw == [k \in DOMAIN facOut.kw \cap ClassKwargs(facOut.name) |-> facOut.kw[k]]
HasUnlistedKey == DOMAIN facOut.kw \ ClassKwargs(facOut.name) # {}

\* C8 as stated: a call with an override key the selected adapter does not
\* list fails, and constructs no dispatcher and no worker
C8_UnlistedKeyFails ==
    (Called /\ Registered /\ HasUnlistedKey) =>
        facOut.kind \notin Dispatchers /\ facOut.pool = 0

\* C8 as amended: an override key the selected adapter does not list is
\* ignored: the class attributes and the outcome of the call are those of
\* the same call without that key
C8_UnlistedKeyIgnored ==
    (Called /\ Registered) =>
        /\ attrs = FactoryAttrs(prevAttrs, facOut.name, ListedKw)
        /\ facOut.kind = FactoryOutcome(facOut.name, facOut.np, ListedKw, facOut.env).kind
        /\ facOut.pool = FactoryOutcome(facOut.name, facOut.np, ListedKw, facOut.env).pool

\* a call with a listed and an unlisted key that returned a dispatcher
C8_Witness ==
    /\ Called /\ facOut.name = "tanimoto" /\ facOut.kind = "Multiprocessing"
    /\ DOMAIN facOut.kw = {"k", "threshold"}
    /\ attrs[<<"tanimoto", "k">>] = OverrideValue
    /\ attrs[<<"tanimoto", "threshold">>] = Absent

\* C9: for a registered name (with the classifier file and the worker script
\* in place) num_processes = 0 yields a Singleprocessing dispatcher and no
\* subprocess, and a positive num_processes a Multiprocessing dispatcher
\* with exactly that many workers
C9_DispatcherByNumProcesses ==
    (Called /\ Registered /\ facOut.env = "ok" /\ facOut.np # <<>> /\ facOut.np[1] >= 0) =>
        IF facOut.np = <<0>>
        THEN facOut.kind = "Singleprocessing" /\ facOut.pool = 0
        ELSE facOut.kind = "Multiprocessing" /\ facOut.pool = facOut.np[1]

\* the units a step starts (line 190)
Started == {t \in threads' \ threads : t.pc = "sendline"}

\* C11 as stated: a worker whose subprocess has died is never handed a
\* descriptor again, and the pool is never changed after construction
C11_NeverDispatchedOnceDead ==
    [][/\ \A t \in Started : alive[t.name]
       /\ n' = n /\ DOMAIN alive' = DOMAIN alive]_vars

\* C11 as amended: the pool is never changed and a dead worker stays dead;
\* every liveness poll builds its hand-out list from workers alive at that
\* poll only, the list only shrinks until the next poll, and a descriptor
\* is handed to the head of that list only.  So a worker found dead by a
\* poll is handed nothing by that pass or any later one.
C11_DeadAtPollExcluded ==
    [][/\ n' = n /\ DOMAIN alive' = DOMAIN alive
       /\ \A w \in WorkerIds : ~alive[w] => ~alive'[w]
       /\ mainPc = "poll" =>
              \A i \in 1..Len(free_threads') : alive[free_threads'[i]]
       /\ mainPc # "poll" =>
              \A i \in 1..Len(free_threads') :
                  \E j \in 1..Len(free_threads) : free_threads'[i] = free_threads[j]
       /\ \A t \in Started :
              free_threads # <<>> /\ t.name = Head(free_threads)]_vars

\* worker 0 was dead at the first poll of the call: the first descriptor
\* popped went to worker 1 and the pass ended with work still queued
C11_Witness ==
    /\ n = 2 /\ ~alive[0] /\ alive[1]
    /\ mainPc = "poll"
    /\ Len(smiles) = 2 /\ Len(smiles_copy) = 1
    /\ \A i \in 1..Len(writer) : writer[i] = Unwritten
    /\ \A t \in threads : t.name = 1 /\ t.idx = 1
    /\ threads # {}

\* C12: every slot above the queue has been bound to exactly one unit and
\* every slot still in the queue to none; the live units have pairwise
\* different write targets; on normal return every slot has had exactly one
C12_EachSlotBoundOnce ==
    /\ \A i \in 1..Len(bound) :
           bound[i] = IF i > Len(smiles_copy) THEN 1 ELSE 0
    /\ \A t1, t2 \in threads : t1.idx = t2.idx => t1 = t2
    /\ Returned => \A i \in Slots : bound[i] = 1

\* two units in flight at once, for the two slots of the batch
C12_Witness ==
    /\ Len(bound) = 2 /\ bound[1] = 1 /\ bound[2] = 1
    /\ Cardinality(threads) = 2

\* C13: at a normal return no unit is alive, the returned array is the
\* result list, and nothing writes the list afterwards
C13_AllUnitsJoined ==
    /\ [](Returned => threads = {} /\ result.val = NpArray(scores))
    /\ [][Returned => (threads' = {} /\ scores' = scores /\ writer' = writer)]_vars

\* returned after two workers each ran a unit to its write
C13_Witness ==
    /\ Returned /\ n = 2 /\ Len(smiles) = 2
    /\ \A i \in Slots : writer[i] # Unwritten
    /\ smiles[1] # smiles[2]

\* C14: when the subprocess answered the request with the well-formed line
\* "<descriptor> <score>" and the exchange did not time out, the call has
\* stored exactly that score at its index, whatever the descriptor
C14_WellFormedScoreStored ==
    (WorkerDone /\ ~fault) =>
        \A d \in WorkerDescriptors, s \in ScoreTexts :
            reply = d \o <<" ">> \o s \o <<"\n">> =>
                \E i \in 1..Len(scores) : writer[i] = d /\ scores[i] = FloatOf(s)

\* C15: once a dispatcher (with its adapter or workers) exists, no call
\* writes the class-level configuration any more; in particular no call
\* changes an attribute that the oracle of an existing dispatcher reads
C15_ConfigFrozenOnceBuilt ==
    [][/\ built # {} => attrs' = attrs
       /\ \A cls \in built : \A k \in OracleReads(cls) :
              attrs'[<<cls, k>>] = attrs[<<cls, k>>]]_vars

Calling == mainPc \in {"poll", "dispatch", "join"}
Ended == mainPc \in {"returned", "raised"}

\* C17: under fair scheduling of the calling thread and of the worker
\* threads, a call of the parallel dispatcher ends; it ends either by
\* returning an array of the batch's length or by raising because no worker
\* is alive, and an error inside a unit never ends the call
C17_CallEnds ==
    /\ Calling ~> Ended
    /\ [](Returned => result.out = "vector" /\ Len(result.val) = Len(smiles))
    /\ [](mainPc = "raised" => alive_workers = {} /\ result = NoResult)
    /\ [][Ended => mainPc' = mainPc]_vars

\* the call returned although a unit ended by an error (EOF on a dead
\* subprocess or a ValueError of float) and so never wrote its slot
C17_Witness ==
    /\ Returned /\ Len(smiles) = 2
    /\ writer[1] = Unwritten /\ writer[2] # Unwritten

\* worker w is alive and runs no unit
Idle(w) == w \in WorkerIds /\ alive[w] /\ w \notin used_threads
InList(w, q) == \E i \in 1..Len(q) : q[i] = w

\* worker w is alive, runs no unit and the dispatcher still has work queued
Starving(w) == Idle(w) /\ smiles_copy # <<>> /\ mainPc \in {"poll", "dispatch"}

\* C16: the end of an exchange, however it ended, leaves the worker's
\* liveness as it was; every poll that hands out work lists every alive
\* worker that runs no unit; and under fair scheduling no such worker is
\* left waiting for ever while descriptors are queued: it is given one,
\* unless the queue runs empty or its subprocess dies before its turn
C16_AnomalyKeepsWorker ==
    /\ [][\A t \in threads :
              (\A u \in threads' : u.name # t.name) => alive'[t.name] = alive[t.name]]_vars
    /\ [][(mainPc = "poll" /\ mainPc' = "dispatch") =>
              \A w \in WorkerIds : Idle(w) => InList(w, free_threads')]_vars
    /\ \A w \in 0..(MaxWorkers - 1) : []<>~Starving(w)

\* the only worker timed out on its first descriptor (a scorable one, stored
\* as 0.0), is still alive and is running the unit of the second
C16_Witness ==
    /\ n = 1 /\ alive[0]
    /\ Len(smiles) = 2 /\ smiles[2] = Ethane
    /\ Len(writer) = 2 /\ writer[2] = Ethane /\ scores[2] = Zero
    /\ \E t \in threads : t.name = 0 /\ t.idx = 0

====
